---------------------------- MODULE Spec2Model ----------------------------
(***************************************************************************)
(* SHARC Echo: the stereo feedback delay line SharcDelayLine               *)
(* (src/PluginProcessor.h) and the host callback                           *)
(* SharcEchoAudioProcessor::processBlock (src/PluginProcessor.cpp).        *)
(*                                                                         *)
(* Numbers.  Gains (feedback, wet, dry) are integers in hundredths, the    *)
(* step of the parameter ranges (0.01).  Delay times are integers in       *)
(* milliseconds, the step of the delay parameter (0.001 s).  Sample rates  *)
(* are integers in samples per second.  Samples are integers on a grid of  *)
(* 1/Unit: the value 1.0f is Unit.  A product sample*gain is rounded to    *)
(* the nearest grid point, ties to even, as a float product is rounded to  *)
(* the nearest representable value.                                        *)
(*                                                                         *)
(* Arrays.  C arrays are sequences; the C index i is the TLA+ index i+1.   *)
(* A read outside an allocation yields a value the caller of the action    *)
(* chooses (any of Garbage); a write outside an allocation is dropped and  *)
(* recorded.                                                               *)
(***************************************************************************)
EXTENDS Integers, Sequences, FiniteSets, TLC

\* ------------------------------------------------------------------ bounds
MaxBlock == 5          \* largest numSamples of a processing call
Unit == 2              \* sample resolution: 1.0f is Unit grid steps
MaxCalls == 4          \* calls made on the engine in one behaviour
MaxAudioBlocks == 2    \* blocks the audio thread runs step by step
MaxStepBlock == 2      \* largest numSamples of a block run step by step

\* ------------------------------------------------------- program constants
simdWidth == 4
DefaultMaxDelaySamples == 240000
DefaultDelaySamples == 48000
DefaultSampleRate == 48000
DefaultFeedback == 30
DefaultWetMix == 50
DefaultDryMix == 50
MaxFeedback == 99
GainScale == 100
MsPerSecond == 1000
HostMaxDelaySeconds == 5

\* ------------------------------------------------------------- input sets
\* prepare(sRate, maxDelaySeconds): the capacities 2, 3, 4 and 6
SampleRates == {1, 2}
MaxDelaySecondsArgs == {2, 3}
\* setDelaySeconds(seconds), in milliseconds, within [0.001, 5.0]
DelayMsArgs == {1, 1000, 1500, 2500, 5000}
\* setFeedback / setWetMix / setDryMix arguments, in hundredths
FeedbackArgs == {-10, 50, 120}
WetArgs == {-20, 130}
DryArgs == {-20, 130}
\* values an out-of-allocation read may yield
Garbage == {0, 2 * Unit}
\* the value an output array holds before a call writes it
Untouched == 9 * Unit

\* -------------------------------------------------------------- arithmetic
Min(a, b) == IF b < a THEN b ELSE a

\* juce::jlimit(lowerLimit, upperLimit, valueToConstrain)
jlimit(lo, hi, v) == IF v < lo THEN lo ELSE IF hi < v THEN hi ELSE v

\* C++ integer division and remainder (truncation toward zero)
TruncDiv(a, b) == IF a >= 0 THEN a \div b ELSE -((-a) \div b)

TruncMod(a, b) == a - b * TruncDiv(a, b)

\* n / d rounded to the nearest integer, ties to even (d > 0)
RoundDiv(n, d) ==
    LET q == n \div d
        r == n % d
    IN  IF 2 * r < d THEN q
        ELSE IF 2 * r > d THEN q + 1
        ELSE IF q % 2 = 0 THEN q ELSE q + 1

\* the float product sample * gain
Mul(x, gain) == RoundDiv(x * gain, GainScale)

\* static_cast<int>(seconds * sRate): truncation
ToSamples(ms, rate) == TruncDiv(ms * rate, MsPerSecond)

\* the hard clip of the stored value
ClipOpen(x) == x

Clip(x) == jlimit(-Unit, Unit, x)

Zeros(n) == [i \in 1..n |-> 0]


\* ------------------------------------------------------------------- state
VARIABLES
    delayLineLeft,     \* std::vector<float>, left delay buffer
    delayLineRight,    \* std::vector<float>, right delay buffer
    maxDelaySamples,   \* int
    delaySamples,      \* int
    delayIndex,        \* int, the shared cursor
    feedback,          \* float, hundredths
    wetMix,            \* float, hundredths
    dryMix,            \* float, hundredths
    sRate,             \* double, samples per second
    prepared,          \* bool
    apvts,             \* the host's parameter values
    useSIMD,           \* SharcEchoAudioProcessor::useSIMD
    audio,             \* the audio thread inside processBlock: its position
                       \* and its locals
    call,              \* the last call made and what it read and wrote
    calls              \* number of calls made so far

engine == <<delayLineLeft, delayLineRight, maxDelaySamples, delaySamples,
            delayIndex, feedback, wetMix, dryMix, sRate, prepared>>

host == <<apvts, useSIMD, audio>>

vars == <<delayLineLeft, delayLineRight, maxDelaySamples, delaySamples,
          delayIndex, feedback, wetMix, dryMix, sRate, prepared,
          apvts, useSIMD, audio, call, calls>>

\* what a call that is no processing call records
NoIO == [n |-> 0, base |-> 0, aliased |-> FALSE, g |-> 0,
         inL |-> <<>>, inR |-> <<>>, outL |-> <<>>, outR |-> <<>>,
         wr |-> {}, rd |-> {}, acc |-> {}, segs |-> <<>>, vecs |-> {},
         tr |-> <<>>, idx0 |-> 0, len0 |-> 0,
         fb |-> 0, wet |-> 0, dry |-> 0]

Called(op, arg) == [op |-> op, arg |-> arg, io |-> NoIO]

\* the createParameterLayout defaults: delay 1.0 s, feedback 0.3, wet 0.5,
\* dry 0.5, bypass false, simd false
DefaultParameters ==
    [delay |-> 1000, feedback |-> 30, wet |-> 50, dry |-> 50,
     bypass |-> FALSE, simd |-> FALSE]

\* the audio thread outside processBlock, `blocks` blocks behind it
AudioIdle(blocks) ==
    [pc |-> "idle", blocks |-> blocks, n |-> 0, g |-> 0,
     bufL |-> <<>>, bufR |-> <<>>,
     delay |-> 0, feedback |-> 0, wet |-> 0, dry |-> 0,
     i |-> 0, c |-> <<>>, s0 |-> <<>>, s |-> <<>>]

\* SharcDelayLine's member defaults and an empty pair of vectors
Init ==
    /\ delayLineLeft = <<>>
    /\ delayLineRight = <<>>
    /\ maxDelaySamples = DefaultMaxDelaySamples
    /\ delaySamples = DefaultDelaySamples
    /\ delayIndex = 0
    /\ feedback = DefaultFeedback
    /\ wetMix = DefaultWetMix
    /\ dryMix = DefaultDryMix
    /\ sRate = DefaultSampleRate
    /\ prepared = FALSE
    /\ apvts = DefaultParameters
    /\ useSIMD = FALSE
    /\ audio = AudioIdle(0)
    /\ call = Called("construct", 0)
    /\ calls = 0

\* ------------------------------------------------- lifecycle and parameters
\* static_cast<int>(sRate * maxDelaySeconds)
Capacity(rate, seconds) == rate * seconds

\* prepare: both vectors resized, then reset(), then prepared = true
prepare(rate, seconds) ==
    /\ sRate' = rate
    /\ maxDelaySamples' = Capacity(rate, seconds)
    /\ delayLineLeft' = Zeros(Capacity(rate, seconds))
    /\ delayLineRight' = Zeros(Capacity(rate, seconds))
    /\ delayIndex' = 0
    /\ prepared' = TRUE
    /\ UNCHANGED <<delaySamples, feedback, wetMix, dryMix>>

DelaySamplesRounded(ms, rate, maxSamples) ==
    jlimit(1, maxSamples, RoundDiv(ms * rate, MsPerSecond))

DelaySamplesFor(ms, rate, maxSamples) ==
    jlimit(1, maxSamples, ToSamples(ms, rate))

setDelaySecondsRewinding(ms) ==
    /\ delaySamples' = DelaySamplesFor(ms, sRate, maxDelaySamples)
    /\ delayIndex' = IF delayIndex >= delaySamples' THEN 0 ELSE delayIndex
    /\ UNCHANGED <<delayLineLeft, delayLineRight, maxDelaySamples,
                   feedback, wetMix, dryMix, sRate, prepared>>

setDelaySeconds(ms) ==
    /\ delaySamples' = DelaySamplesFor(ms, sRate, maxDelaySamples)
    /\ UNCHANGED <<delayLineLeft, delayLineRight, maxDelaySamples, delayIndex,
                   feedback, wetMix, dryMix, sRate, prepared>>

setFeedbackUnclamped(fb) ==
    /\ feedback' = fb
    /\ UNCHANGED <<delayLineLeft, delayLineRight, maxDelaySamples, delaySamples,
                   delayIndex, wetMix, dryMix, sRate, prepared>>

setFeedback(fb) ==
    /\ feedback' = jlimit(0, MaxFeedback, fb)
    /\ UNCHANGED <<delayLineLeft, delayLineRight, maxDelaySamples, delaySamples,
                   delayIndex, wetMix, dryMix, sRate, prepared>>

setWetMix(wet) ==
    /\ wetMix' = jlimit(0, GainScale, wet)
    /\ UNCHANGED <<delayLineLeft, delayLineRight, maxDelaySamples, delaySamples,
                   delayIndex, feedback, dryMix, sRate, prepared>>

setDryMix(dry) ==
    /\ dryMix' = jlimit(0, GainScale, dry)
    /\ UNCHANGED <<delayLineLeft, delayLineRight, maxDelaySamples, delaySamples,
                   delayIndex, feedback, wetMix, sRate, prepared>>

resetCursorOnly ==
    /\ delayIndex' = 0
    /\ UNCHANGED <<delayLineLeft, delayLineRight, maxDelaySamples, delaySamples,
                   feedback, wetMix, dryMix, sRate, prepared>>

reset ==
    /\ delayLineLeft' = Zeros(Len(delayLineLeft))
    /\ delayLineRight' = Zeros(Len(delayLineRight))
    /\ delayIndex' = 0
    /\ UNCHANGED <<maxDelaySamples, delaySamples, feedback, wetMix, dryMix,
                   sRate, prepared>>

\* ------------------------------------------------------------- processing
\* A processing call runs on a record s (what the call changes) under a
\* record c (what it only reads).
\*   s.bufL, s.bufR   the delay buffers         s.idx  the local cursor idx
\*   s.outL, s.outR   the output arrays         s.p    offset of the i/o pointers
\*   s.rem            samplesRemaining
\*   s.wr, s.rd       output offsets written, input offsets read
\*   s.acc            delay-buffer indices read or written
\*   s.segs           samplesToEdge of each outer iteration of the SIMD loop
\*   s.vecs           buffer offset of each vector load/store
\*   s.tr             per sample processed, in order: the i/o offset p, the
\*                    cursor at, the delayed values read (dL, dR), the outputs
\*                    written (oL, oR) and the values stored (wL, wR)
\*   c.len, c.fb, c.wet, c.dry   the locals len, fb, wet, dry
\*   c.inL, c.inR     the input arrays          c.base  offset the call is given
\*   c.n              numSamples                c.g     out-of-allocation value
\*   c.aliased        input and output are the same arrays

InRange(seq, i) == i >= 0 /\ i < Len(seq)

\* bufferLeft[i]
BufAt(buf, i, g) == IF InRange(buf, i) THEN buf[i + 1] ELSE g

\* bufferLeft[i] = v
BufPut(buf, i, v) == IF InRange(buf, i) THEN [buf EXCEPT ![i + 1] = v] ELSE buf

\* inputLeft[p] as memory stands: the output array itself when aliased
InAt(in, out, c, p) ==
    IF ~InRange(in, p) THEN c.g
    ELSE IF c.aliased THEN out[p + 1] ELSE in[p + 1]

\* the loop body of processBlockScalar, and of the scalar tail of
\* processBlockSIMD: read, mix, write the output, re-read the input, store
SampleNaive(s, c) ==
    LET dL == BufAt(s.bufL, s.idx, c.g)
        dR == BufAt(s.bufR, s.idx, c.g)
        iL == InAt(c.inL, s.outL, c, s.p)
        iR == InAt(c.inR, s.outR, c, s.p)
        oL == Mul(iL, c.dry) + Mul(dL, c.wet)
        oR == Mul(iR, c.dry) + Mul(dR, c.wet)
        newL == Clip(Mul(iL + dL, c.fb))
        newR == Clip(Mul(iR + dR, c.fb))
    IN  [s EXCEPT !.outL = BufPut(@, s.p, oL),
                  !.outR = BufPut(@, s.p, oR),
                  !.bufL = BufPut(@, s.idx, newL),
                  !.bufR = BufPut(@, s.idx, newR),
                  !.wr = @ \cup {s.p},
                  !.rd = @ \cup {s.p},
                  !.acc = @ \cup {s.idx},
                  !.tr = Append(@, [p |-> s.p, at |-> s.idx,
                                    dL |-> dL, dR |-> dR, oL |-> oL, oR |-> oR,
                                    wL |-> newL, wR |-> newR])]

Sample(s, c) ==
    LET dL == BufAt(s.bufL, s.idx, c.g)
        dR == BufAt(s.bufR, s.idx, c.g)
        oL == Mul(InAt(c.inL, s.outL, c, s.p), c.dry) + Mul(dL, c.wet)
        outL1 == BufPut(s.outL, s.p, oL)
        oR == Mul(InAt(c.inR, s.outR, c, s.p), c.dry) + Mul(dR, c.wet)
        outR1 == BufPut(s.outR, s.p, oR)
        newL == InAt(c.inL, outL1, c, s.p) + Mul(dL, c.fb)
        newR == InAt(c.inR, outR1, c, s.p) + Mul(dR, c.fb)
    IN  [s EXCEPT !.outL = outL1,
                  !.outR = outR1,
                  !.bufL = BufPut(@, s.idx, Clip(newL)),
                  !.bufR = BufPut(@, s.idx, Clip(newR)),
                  !.wr = @ \cup {s.p},
                  !.rd = @ \cup {s.p},
                  !.acc = @ \cup {s.idx},
                  !.tr = Append(@, [p |-> s.p, at |-> s.idx,
                                    dL |-> dL, dR |-> dR, oL |-> oL, oR |-> oR,
                                    wL |-> Clip(newL), wR |-> Clip(newR)])]

\* for (int i = 0; i < numSamples; ++i) { ...; if (++idx >= len) idx = 0; }
ScalarIterationWrappingAtCapacity(s, c, i) ==
    LET t == Sample([s EXCEPT !.p = c.base + i], c)
    IN  [t EXCEPT !.idx = IF t.idx + 1 >= Len(t.bufL) THEN 0 ELSE t.idx + 1]

\* one iteration of that loop
ScalarIteration(s, c, i) ==
    LET t == Sample([s EXCEPT !.p = c.base + i], c)
    IN  [t EXCEPT !.idx = IF t.idx + 1 >= c.len THEN 0 ELSE t.idx + 1]

RECURSIVE ScalarLoop(_, _, _)
ScalarLoop(s, c, i) ==
    IF i >= c.n THEN s
    ELSE ScalarLoop(ScalarIteration(s, c, i), c, i + 1)

\* one lane of a vector group: all loads of the group precede its stores
Lanes == 0 .. simdWidth - 1

\* one vector group at buffer offset `offset`: W loads, W output stores,
\* W buffer stores, then the i/o pointers advance by W
VectorGroup(s, c, offset) ==
    LET dL == [j \in Lanes |-> BufAt(s.bufL, offset + j, c.g)]
        dR == [j \in Lanes |-> BufAt(s.bufR, offset + j, c.g)]
        iL == [j \in Lanes |-> InAt(c.inL, s.outL, c, s.p + j)]
        iR == [j \in Lanes |-> InAt(c.inR, s.outR, c, s.p + j)]
        oL == [j \in Lanes |-> Mul(iL[j], c.dry) + Mul(dL[j], c.wet)]
        oR == [j \in Lanes |-> Mul(iR[j], c.dry) + Mul(dR[j], c.wet)]
        newL == [j \in Lanes |-> Clip(iL[j] + Mul(dL[j], c.fb))]
        newR == [j \in Lanes |-> Clip(iR[j] + Mul(dR[j], c.fb))]
        Store(seq, at, val) ==
            [k \in 1..Len(seq) |->
                IF k - 1 - at \in Lanes THEN val[k - 1 - at] ELSE seq[k]]
    IN  [s EXCEPT
            !.outL = Store(@, s.p, oL),
            !.outR = Store(@, s.p, oR),
            !.bufL = Store(@, offset, newL),
            !.bufR = Store(@, offset, newR),
            !.tr = @ \o [k \in 1..simdWidth |->
                           [p |-> s.p + k - 1, at |-> offset + k - 1,
                            dL |-> dL[k - 1], dR |-> dR[k - 1],
                            oL |-> oL[k - 1], oR |-> oR[k - 1],
                            wL |-> newL[k - 1], wR |-> newR[k - 1]]],
            !.wr = @ \cup {s.p + j : j \in Lanes},
            !.rd = @ \cup {s.p + j : j \in Lanes},
            !.acc = @ \cup {offset + j : j \in Lanes},
            !.vecs = @ \cup {offset},
            !.p = @ + simdWidth]

\* for (int chunk = 0; chunk < simdChunks; ++chunk)
RECURSIVE VectorLoop(_, _, _, _)
VectorLoop(s, c, chunk, simdChunks) ==
    IF chunk >= simdChunks THEN s
    ELSE VectorLoop(VectorGroup(s, c, s.idx + chunk * simdWidth), c,
                    chunk + 1, simdChunks)

\* for (int i = 0; i < scalarTail; ++i) { ...; ++pointers; ++idx; }
RECURSIVE TailLoop(_, _, _, _)
TailLoop(s, c, i, scalarTail) ==
    IF i >= scalarTail THEN s
    ELSE LET t == Sample(s, c)
         IN  TailLoop([t EXCEPT !.p = @ + 1, !.idx = @ + 1], c, i + 1, scalarTail)

\* one iteration of the outer loop of processBlockSIMD: the vector groups
\* and the scalar tail up to the buffer edge, then the wrap test
SIMDSegment(s, c) ==
    LET samplesToEdge == Min(s.rem, c.len - s.idx)
        simdChunks == TruncDiv(samplesToEdge, simdWidth)
        scalarTail == TruncMod(samplesToEdge, simdWidth)
        s1 == VectorLoop(s, c, 0, simdChunks)
        s2 == [s1 EXCEPT !.idx = @ + simdChunks * simdWidth]
        s3 == TailLoop(s2, c, 0, scalarTail)
    IN  [s3 EXCEPT !.rem = @ - samplesToEdge,
                   !.idx = IF s3.idx >= c.len THEN 0 ELSE s3.idx,
                   !.segs = Append(@, samplesToEdge)]

\* while (samplesRemaining > 0) { ... }
RECURSIVE SIMDLoop(_, _)
SIMDLoop(s, c) ==
    IF s.rem <= 0 THEN s
    ELSE SIMDLoop(SIMDSegment(s, c), c)

\* the locals a processing call takes from the engine, and its arguments
ContextOf(len, fb, wet, dry, inL, inR, base, n, aliased, g) ==
    [len |-> len, fb |-> fb, wet |-> wet, dry |-> dry,
     inL |-> inL, inR |-> inR, base |-> base, n |-> n,
     aliased |-> aliased, g |-> g]

Context(inL, inR, base, n, aliased, g) ==
    ContextOf(delaySamples, feedback, wetMix, dryMix,
              inL, inR, base, n, aliased, g)

\* the locals of a call that finds the buffers and the cursor as given
StartAt(bufL, bufR, idx, c, outL, outR) ==
    [bufL |-> bufL, bufR |-> bufR, idx |-> idx,
     outL |-> outL, outR |-> outR, p |-> c.base, rem |-> c.n,
     wr |-> {}, rd |-> {}, acc |-> {}, segs |-> <<>>, vecs |-> {},
     tr |-> <<>>]

Start(c, outL, outR) ==
    StartAt(delayLineLeft, delayLineRight, delayIndex, c, outL, outR)

ScalarUnguarded(c, outL, outR) == ScalarLoop(Start(c, outL, outR), c, 0)

\* processBlockScalar: the end state of the call
ScalarRun(c, outL, outR) ==
    IF ~prepared THEN Start(c, outL, outR)
    ELSE ScalarLoop(Start(c, outL, outR), c, 0)

\* processBlockSIMD: the end state of the call
SIMDRun(c, outL, outR) ==
    IF ~prepared THEN Start(c, outL, outR)
    ELSE SIMDLoop(Start(c, outL, outR), c)

\* what the call leaves in the engine and what the caller observes
Observed(op, c, r) ==
    [op |-> op, arg |-> c.n,
     io |-> [n |-> c.n, base |-> c.base, aliased |-> c.aliased,
             g |-> c.g, inL |-> c.inL, inR |-> c.inR,
             outL |-> r.outL, outR |-> r.outR,
             wr |-> r.wr, rd |-> r.rd, acc |-> r.acc,
             segs |-> r.segs, vecs |-> r.vecs, tr |-> r.tr,
             idx0 |-> delayIndex, len0 |-> c.len,
             fb |-> c.fb, wet |-> c.wet, dry |-> c.dry]]

Finish(op, c, r) ==
    /\ delayLineLeft' = r.bufL
    /\ delayLineRight' = r.bufR
    /\ delayIndex' = r.idx
    /\ UNCHANGED <<maxDelaySamples, delaySamples, feedback, wetMix, dryMix,
                   sRate, prepared>>
    /\ call' = Observed(op, c, r)

processBlockScalar(inL, inR, outL, outR, n, g) ==
    LET c == Context(inL, inR, 0, n, FALSE, g)
    IN  Finish("processBlockScalar", c, ScalarRun(c, outL, outR))

processBlockSIMD(inL, inR, outL, outR, n, g) ==
    LET c == Context(inL, inR, 0, n, FALSE, g)
    IN  Finish("processBlockSIMD", c, SIMDRun(c, outL, outR))

\* ------------------------------------------------------- calls on the engine
\* input blocks: the first sample a, every later sample b (an impulse, a
\* full-scale block, a silent block); the right channel carries the left
\* one negated
LeftBlock(n, a, b) == [i \in 1..n |-> IF i = 1 THEN a ELSE b]

Negated(seq) == [i \in 1..Len(seq) |-> -seq[i]]

InputBlocks(n) ==
    {LeftBlock(n, Unit, 0), LeftBlock(n, Unit, Unit), LeftBlock(n, 0, 0)}

\* an output array of n samples no call has written yet
Fresh(n) == [i \in 1..n |-> Untouched]

Counted == calls < MaxCalls /\ calls' = calls + 1

Prepare ==
    \E rate \in SampleRates, seconds \in MaxDelaySecondsArgs :
        /\ Counted
        /\ prepare(rate, seconds)
        /\ call' = Called("prepare", <<rate, seconds>>)
        /\ UNCHANGED host

SetDelaySeconds ==
    \E ms \in DelayMsArgs :
        /\ Counted
        /\ setDelaySeconds(ms)
        /\ call' = Called("setDelaySeconds", ms)
        /\ UNCHANGED host

SetFeedback ==
    \E fb \in FeedbackArgs :
        /\ Counted
        /\ setFeedback(fb)
        /\ call' = Called("setFeedback", fb)
        /\ UNCHANGED host

SetWetMix ==
    \E wet \in WetArgs :
        /\ Counted
        /\ setWetMix(wet)
        /\ call' = Called("setWetMix", wet)
        /\ UNCHANGED host

SetDryMix ==
    \E dry \in DryArgs :
        /\ Counted
        /\ setDryMix(dry)
        /\ call' = Called("setDryMix", dry)
        /\ UNCHANGED host

Reset ==
    /\ Counted
    /\ reset
    /\ call' = Called("reset",
                      [cursor |-> delayIndex,
                       stale |-> \/ delayLineLeft # Zeros(Len(delayLineLeft))
                                 \/ delayLineRight # Zeros(Len(delayLineRight))])
    /\ UNCHANGED host

ProcessScalar ==
    \E n \in 0..MaxBlock, g \in Garbage :
        \E inL \in InputBlocks(n) :
            /\ Counted
            /\ processBlockScalar(inL, Negated(inL), Fresh(n), Fresh(n), n, g)
            /\ UNCHANGED host

ProcessSIMD ==
    \E n \in 0..MaxBlock, g \in Garbage :
        \E inL \in InputBlocks(n) :
            /\ Counted
            /\ processBlockSIMD(inL, Negated(inL), Fresh(n), Fresh(n), n, g)
            /\ UNCHANGED host

Next ==
    \/ Prepare
    \/ SetDelaySeconds
    \/ SetFeedback
    \/ SetWetMix
    \/ SetDryMix
    \/ Reset
    \/ ProcessScalar
    \/ ProcessSIMD

Spec == Init /\ [][Next]_vars

\* ------------------------------------------------------ claims on the engine
ProcessOps == {"processBlockScalar", "processBlockSIMD"}

\* positions 0 .. n-1 of an array
Positions(n) == 0 .. n - 1

\* both paths run from the current engine state on the same arguments
PathsAgree(c, outL, outR) ==
    LET a == ScalarRun(c, outL, outR)
        b == SIMDRun(c, outL, outR)
    IN  /\ a.outL = b.outL
        /\ a.outR = b.outR
        /\ a.bufL = b.bufL
        /\ a.bufR = b.bufR
        /\ a.idx = b.idx

\* the engine is about to start a call with the delay length and the cursor
\* inside the allocated buffers
StartsInside ==
    /\ delaySamples <= maxDelaySamples
    /\ delayIndex < maxDelaySamples

\* the last call started with the delay length and the cursor inside the
\* allocated buffers
StartedInside ==
    /\ call.io.len0 <= maxDelaySamples
    /\ call.io.idx0 < maxDelaySamples

\* C1: from every prepared engine state, and for every input block given
\* with separate input and output arrays, processBlockScalar and
\* processBlockSIMD produce the same outputs on both channels and leave the
\* same delay buffers and the same cursor.  Stated for the calls that start
\* with delaySamples and the cursor inside the buffers.
C1_PathEquivalence ==
    [][(prepared /\ call'.op \in ProcessOps /\ StartsInside)
         => PathsAgree(Context(call'.io.inL, call'.io.inR, 0, call'.io.n,
                               FALSE, call'.io.g),
                       Fresh(call'.io.n), Fresh(call'.io.n))]_vars

\* C2: a processing call of n samples on a prepared engine writes exactly
\* the output positions 0 .. n-1 and touches no input or output position
\* outside 0 .. n-1.  Stated for the calls that start with delaySamples and
\* the cursor inside the buffers.
C2_ExactBlockPopulation ==
    (prepared /\ call.op \in ProcessOps /\ StartedInside)
        => /\ call.io.wr = Positions(call.io.n)
           /\ call.io.rd \subseteq Positions(call.io.n)

\* C4: 1 <= delaySamples <= maxDelaySamples in every reachable state.
C4_DelayLengthInvariant ==
    /\ 1 <= delaySamples
    /\ delaySamples <= maxDelaySamples

\* C5: on a prepared engine the cursor is inside the allocated buffers, and
\* so is every buffer index a processing call reads or writes.
C5_CursorValidity ==
    prepared
        => /\ 0 <= delayIndex
           /\ delayIndex < maxDelaySamples
           /\ call.op \in ProcessOps
                => call.io.acc \subseteq Positions(maxDelaySamples)

\* C6: every element of both delay buffers lies in [-1, 1] in every
\* reachable state.
C6_ClipInvariant ==
    /\ \A i \in 1..Len(delayLineLeft) :
          -Unit <= delayLineLeft[i] /\ delayLineLeft[i] <= Unit
    /\ \A i \in 1..Len(delayLineRight) :
          -Unit <= delayLineRight[i] /\ delayLineRight[i] <= Unit

\* a block of full-scale input that went round the loop with feedback on:
\* the second value stored in a cell is 1 + feedback * 1 before the clip
C6_Witness ==
    /\ prepared
    /\ call.op \in ProcessOps
    /\ feedback > 0
    /\ call.io.n > call.io.len0
    /\ call.io.idx0 = 0
    /\ call.io.len0 <= maxDelaySamples
    /\ call.io.inL = LeftBlock(call.io.n, Unit, Unit)
    /\ delayLineLeft[1] = Unit
    /\ delayLineRight[1] = -Unit

\* C7: a processing call on an engine never prepared writes no output
\* position and leaves the whole engine state as it was.
C7_UnpreparedNoOp ==
    [][(~prepared /\ call'.op \in ProcessOps)
         => /\ engine' = engine
            /\ call'.io.wr = {}
            /\ call'.io.outL = Fresh(call'.io.n)
            /\ call'.io.outR = Fresh(call'.io.n)]_vars

C7_Witness ==
    /\ ~prepared
    /\ call.op \in ProcessOps
    /\ call.io.n > 0
    /\ call.io.outL = Fresh(call.io.n)

\* C10 as stated: setDelaySeconds leaves round(seconds * sampleRate),
\* clamped into [1, maxDelaySamples], in delaySamples.
C10_RoundedDelay ==
    call.op = "setDelaySeconds"
        => LET x == call.arg * sRate
               h == MsPerSecond \div 2
           IN  \/ delaySamples = 1 /\ x < MsPerSecond + h
               \/ /\ delaySamples = maxDelaySamples
                  /\ x >= maxDelaySamples * MsPerSecond - h
               \/ /\ 1 < delaySamples
                  /\ delaySamples < maxDelaySamples
                  /\ delaySamples * MsPerSecond - h <= x
                  /\ x < delaySamples * MsPerSecond + h

\* C10 amended: setDelaySeconds leaves seconds * sampleRate truncated to an
\* integer, clamped into [1, maxDelaySamples], in delaySamples.
C10_TruncatedDelay ==
    call.op = "setDelaySeconds"
        => LET x == call.arg * sRate
           IN  \/ delaySamples = 1 /\ x < 2 * MsPerSecond
               \/ /\ delaySamples = maxDelaySamples
                  /\ x >= maxDelaySamples * MsPerSecond
               \/ /\ 1 < delaySamples
                  /\ delaySamples < maxDelaySamples
                  /\ delaySamples * MsPerSecond <= x
                  /\ x < (delaySamples + 1) * MsPerSecond

\* a delay time whose product with the sample rate has a fraction of one
\* half and is not clamped
C10_Witness ==
    /\ call.op = "setDelaySeconds"
    /\ prepared
    /\ (call.arg * sRate) % MsPerSecond = MsPerSecond \div 2
    /\ 1 < delaySamples
    /\ delaySamples < maxDelaySamples

\* ------------------------------------------------------------------ the host
\* sample rates the host prepares with; prepareToPlay passes 5.0 s
HostSampleRates == {1}

\* values the control thread writes into the parameters
ParameterWrites ==
    {<<"delay", ms>> : ms \in DelayMsArgs}
        \cup {<<"feedback", v>> : v \in {0, 50, 99}}
        \cup {<<"wet", v>> : v \in {0, 100}}
        \cup {<<"dry", v>> : v \in {0, 100}}
        \cup {<<"bypass", b>> : b \in BOOLEAN}
        \cup {<<"simd", b>> : b \in BOOLEAN}

\* SharcEchoAudioProcessor::prepareToPlay
PrepareToPlay ==
    \E rate \in HostSampleRates :
        /\ Counted
        /\ prepare(rate, HostMaxDelaySeconds)
        /\ call' = Called("prepareToPlay", rate)
        /\ UNCHANGED host

\* the control thread writes one parameter
SetParameter ==
    \E w \in ParameterWrites :
        /\ Counted
        /\ apvts' = [apvts EXCEPT ![w[1]] = w[2]]
        /\ call' = Called("setParameter", w)
        /\ UNCHANGED engine
        /\ UNCHANGED <<useSIMD, audio>>

\* SharcEchoAudioProcessor::processBlock on a stereo buffer of n samples:
\* bypass check, parameter reads, the four setters, then one processing
\* path with the buffer's channels as input and as output
\* processBlock past the bypass check: parameter reads, the four setters,
\* then one processing path
processBlockActive(bufL, bufR, n, g) ==
    LET len == DelaySamplesFor(apvts.delay, sRate, maxDelaySamples)
        fb == jlimit(0, MaxFeedback, apvts.feedback)
        wet == jlimit(0, GainScale, apvts.wet)
        dry == jlimit(0, GainScale, apvts.dry)
        c == ContextOf(len, fb, wet, dry, bufL, bufR, 0, n, TRUE, g)
        r == IF apvts.simd THEN SIMDRun(c, bufL, bufR)
                           ELSE ScalarRun(c, bufL, bufR)
    IN  /\ useSIMD' = apvts.simd
        /\ delaySamples' = len
        /\ feedback' = fb
        /\ wetMix' = wet
        /\ dryMix' = dry
        /\ delayLineLeft' = r.bufL
        /\ delayLineRight' = r.bufR
        /\ delayIndex' = r.idx
        /\ UNCHANGED <<maxDelaySamples, sRate, prepared>>
        /\ call' = [Observed("processBlock", c, r) EXCEPT
                       !.arg = [n |-> n, bypass |-> FALSE,
                                simd |-> apvts.simd]]

processBlockIgnoringBypass(bufL, bufR, n, g) ==
    processBlockActive(bufL, bufR, n, g)

processBlock(bufL, bufR, n, g) ==
    IF apvts.bypass
    THEN /\ UNCHANGED engine
         /\ UNCHANGED useSIMD
         /\ call' = [op |-> "processBlock",
                     arg |-> [n |-> n, bypass |-> TRUE, simd |-> useSIMD],
                     io |-> [NoIO EXCEPT !.n = n, !.aliased = TRUE,
                                         !.inL = bufL, !.inR = bufR,
                                         !.outL = bufL, !.outR = bufR]]
    ELSE processBlockActive(bufL, bufR, n, g)

ProcessBlock ==
    \E n \in 0..MaxBlock, g \in Garbage :
        \E bufL \in InputBlocks(n) :
            /\ Counted
            /\ processBlock(bufL, Negated(bufL), n, g)
            /\ UNCHANGED <<apvts, audio>>

HostNext ==
    \/ PrepareToPlay
    \/ SetParameter
    \/ ProcessBlock

SpecHost == Init /\ [][HostNext]_vars

\* -------------------------------------------------------- claims on the host
\* C3: in a host call (the same buffer is input and output) every sample's
\* output is originalInput * dry + delayed * wet and the value stored in the
\* delay buffer is clamp(originalInput + feedback * delayed, -1, 1), the
\* original input being the sample the buffer held before the call.
C3_HostRecurrence ==
    (call.op = "processBlock" /\ prepared /\ ~call.arg.bypass)
        => \A k \in 1..Len(call.io.tr) :
              LET t == call.io.tr[k]
                  xL == call.io.inL[t.p + 1]
                  xR == call.io.inR[t.p + 1]
              IN  t.p \in Positions(call.io.n)
                    => /\ t.oL = Mul(xL, call.io.dry) + Mul(t.dL, call.io.wet)
                       /\ t.oR = Mul(xR, call.io.dry) + Mul(t.dR, call.io.wet)
                       /\ t.wL = Clip(xL + Mul(t.dL, call.io.fb))
                       /\ t.wR = Clip(xR + Mul(t.dR, call.io.fb))

\* ------------------------------------------------ impulse response, chunking
\* v multiplied j times by the gain f, each product rounded as Mul rounds
RECURSIVE Decay(_, _, _)
Decay(v, f, j) == IF j <= 0 THEN v ELSE Decay(Mul(v, f), f, j - 1)

\* a single impulse a at sample 0 followed by silence
IsImpulse(seq, a) ==
    /\ Len(seq) >= 1
    /\ seq = LeftBlock(Len(seq), a, 0)
    /\ a # 0

\* the engine as reset leaves it, with the delay length inside the buffers
FreshlyReset ==
    /\ prepared
    /\ delayIndex = 0
    /\ delaySamples <= maxDelaySamples
    /\ delayLineLeft = Zeros(Len(delayLineLeft))
    /\ delayLineRight = Zeros(Len(delayLineRight))

\* the wet component of the outputs a sample wrote: output minus input * dry
WetLeft(io, t) == t.oL - Mul(io.inL[t.p + 1], io.dry)

WetRight(io, t) == t.oR - Mul(io.inR[t.p + 1], io.dry)

\* factors a proportionality may use
Factors == (-(GainScale * Unit)) .. (GainScale * Unit)

\* the impulse call: a processing call from the reset state whose left
\* input is the impulse a and whose right input is the impulse -a
ImpulseCall(a) ==
    /\ FreshlyReset
    /\ call'.op \in ProcessOps
    /\ IsImpulse(call'.io.inL, a)

RunAt(op, bufL, bufR, idx, c, outL, outR) ==
    IF op = "processBlockScalar"
    THEN ScalarLoop(StartAt(bufL, bufR, idx, c, outL, outR), c, 0)
    ELSE SIMDLoop(StartAt(bufL, bufR, idx, c, outL, outR), c)

\* the call c made as two consecutive calls of m and c.n - m samples on the
\* same arrays
SplitRun(op, c, m) ==
    LET c1 == [c EXCEPT !.n = m]
        r1 == RunAt(op, delayLineLeft, delayLineRight, delayIndex, c1,
                    Fresh(c.n), Fresh(c.n))
        c2 == [c EXCEPT !.base = m, !.n = c.n - m]
    IN  RunAt(op, r1.bufL, r1.bufR, r1.idx, c2, r1.outL, r1.outR)

\* C9: a call of N samples leaves the same outputs, buffers and cursor as
\* the same N samples given in two consecutive calls, wherever the split
\* falls, on each path.  Stated for the calls that start with delaySamples
\* and the cursor inside the buffers.
C9_ChunkingAssociativity ==
    [][(prepared /\ call'.op \in ProcessOps /\ StartsInside)
         => \A m \in 0..call'.io.n :
               LET r == SplitRun(call'.op,
                                 Context(call'.io.inL, call'.io.inR, 0,
                                         call'.io.n, FALSE, call'.io.g),
                                 m)
               IN  /\ r.outL = call'.io.outL
                   /\ r.outR = call'.io.outR
                   /\ r.bufL = delayLineLeft'
                   /\ r.bufR = delayLineRight'
                   /\ r.idx = delayIndex']_vars

\* ------------------------------------------------------ claims on the setters
SetterOps == {"setFeedback", "setWetMix", "setDryMix"}

\* the gains lie in their ranges: feedback in [0, 0.99], wet and dry in [0, 1]
GainsInRange ==
    /\ 0 <= feedback /\ feedback <= MaxFeedback
    /\ 0 <= wetMix /\ wetMix <= GainScale
    /\ 0 <= dryMix /\ dryMix <= GainScale

\* C11: whatever arguments the setters are given, feedback stays in
\* [0, 0.99] and wetMix and dryMix stay in [0, 1], and each setter changes
\* its own parameter only: setFeedback leaves wet and dry, setWetMix leaves
\* feedback and dry, setDryMix leaves feedback and wet, and none of them
\* touches the buffers, the cursor, the delay length or the prepared flag.
C11_ParameterClamping ==
    [][/\ GainsInRange
       /\ GainsInRange'
       /\ call'.op \in SetterOps
            => /\ UNCHANGED <<delayLineLeft, delayLineRight, maxDelaySamples,
                              delaySamples, delayIndex, sRate, prepared>>
               /\ call'.op # "setFeedback" => feedback' = feedback
               /\ call'.op # "setWetMix" => wetMix' = wetMix
               /\ call'.op # "setDryMix" => dryMix' = dryMix
               /\ call'.op = "setFeedback"
                    => feedback' = jlimit(0, MaxFeedback, call'.arg)
               /\ call'.op = "setWetMix"
                    => wetMix' = jlimit(0, GainScale, call'.arg)
               /\ call'.op = "setDryMix"
                    => dryMix' = jlimit(0, GainScale, call'.arg)]_vars

\* setFeedback was given a value above the range while wet and dry stood at
\* different values, both set by out-of-range arguments before
C11_Witness ==
    /\ call.op = "setFeedback"
    /\ call.arg > MaxFeedback
    /\ feedback = MaxFeedback
    /\ wetMix = GainScale
    /\ dryMix = 0

\* ------------------------------------- processBlock against the control thread
\* The audio thread runs processBlock one step at a time: each load of a
\* parameter, each setter call, each iteration of the scalar loop and each
\* outer iteration of the SIMD loop is a step.  The control thread writes a
\* parameter between any two of them (ControlWrite).

\* the locals len, fb, wet, dry and the pointers, as the loops read them
LiveParameters ==
    [audio.c EXCEPT
        !.len = DelaySamplesFor(apvts.delay, sRate, maxDelaySamples),
        !.fb = jlimit(0, MaxFeedback, apvts.feedback),
        !.wet = jlimit(0, GainScale, apvts.wet),
        !.dry = jlimit(0, GainScale, apvts.dry)]

BlockLocals == audio.c

\* the call record a returning processBlock leaves
Returned(c, r) ==
    [Observed("processBlock", c, r) EXCEPT
        !.arg = [n |-> audio.n, bypass |-> FALSE, simd |-> useSIMD]]

\* values the control thread writes while a block may be running: each
\* parameter away from its default, the two switches either way
ControlWrites ==
    {<<"delay", 2000>>, <<"feedback", 99>>, <<"wet", 100>>, <<"dry", 0>>}
        \cup {<<"bypass", b>> : b \in BOOLEAN}
        \cup {<<"simd", b>> : b \in BOOLEAN}

\* the control thread writes one parameter, at any time
ControlWrite ==
    \E w \in ControlWrites :
        /\ Counted
        /\ apvts' = [apvts EXCEPT ![w[1]] = w[2]]
        /\ call' = Called("setParameter", w)
        /\ UNCHANGED engine
        /\ UNCHANGED <<useSIMD, audio>>

\* the host calls processBlock on a buffer of n full-scale samples
EnterBlock ==
    \E n \in 1..MaxStepBlock, g \in Garbage :
        \E bufL \in {LeftBlock(n, Unit, Unit)} :
            /\ audio.pc = "idle"
            /\ audio.blocks < MaxAudioBlocks
            /\ audio' = [audio EXCEPT !.pc = "bypass", !.n = n, !.g = g,
                                      !.bufL = bufL, !.bufR = Negated(bufL)]
            /\ UNCHANGED <<apvts, useSIMD, call, calls>>
            /\ UNCHANGED engine

\* if (*apvts.getRawParameterValue("bypass") > 0.5f) return;
LoadBypass ==
    /\ audio.pc = "bypass"
    /\ IF apvts.bypass
       THEN /\ audio' = AudioIdle(audio.blocks + 1)
            /\ call' = [op |-> "processBlock",
                        arg |-> [n |-> audio.n, bypass |-> TRUE,
                                 simd |-> useSIMD],
                        io |-> [NoIO EXCEPT !.n = audio.n, !.aliased = TRUE,
                                            !.inL = audio.bufL,
                                            !.inR = audio.bufR,
                                            !.outL = audio.bufL,
                                            !.outR = audio.bufR]]
       ELSE /\ audio' = [audio EXCEPT !.pc = "delay"]
            /\ UNCHANGED call
    /\ UNCHANGED <<apvts, useSIMD, calls>>
    /\ UNCHANGED engine

\* float delaySeconds = *apvts.getRawParameterValue("delay");
LoadDelay ==
    /\ audio.pc = "delay"
    /\ audio' = [audio EXCEPT !.pc = "feedback", !.delay = apvts.delay]
    /\ UNCHANGED <<apvts, useSIMD, call, calls>>
    /\ UNCHANGED engine

\* float feedback = *apvts.getRawParameterValue("feedback");
LoadFeedback ==
    /\ audio.pc = "feedback"
    /\ audio' = [audio EXCEPT !.pc = "wet", !.feedback = apvts.feedback]
    /\ UNCHANGED <<apvts, useSIMD, call, calls>>
    /\ UNCHANGED engine

\* float wetMix = *apvts.getRawParameterValue("wet");
LoadWet ==
    /\ audio.pc = "wet"
    /\ audio' = [audio EXCEPT !.pc = "dry", !.wet = apvts.wet]
    /\ UNCHANGED <<apvts, useSIMD, call, calls>>
    /\ UNCHANGED engine

\* float dryMix = *apvts.getRawParameterValue("dry");
LoadDry ==
    /\ audio.pc = "dry"
    /\ audio' = [audio EXCEPT !.pc = "simd", !.dry = apvts.dry]
    /\ UNCHANGED <<apvts, useSIMD, call, calls>>
    /\ UNCHANGED engine

\* useSIMD = *apvts.getRawParameterValue("simd") > 0.5f;
LoadSimd ==
    /\ audio.pc = "simd"
    /\ useSIMD' = apvts.simd
    /\ audio' = [audio EXCEPT !.pc = "setDelaySeconds"]
    /\ UNCHANGED <<apvts, call, calls>>
    /\ UNCHANGED engine

\* delayLine.setDelaySeconds(delaySeconds);
CallSetDelaySeconds ==
    /\ audio.pc = "setDelaySeconds"
    /\ setDelaySeconds(audio.delay)
    /\ audio' = [audio EXCEPT !.pc = "setFeedback"]
    /\ UNCHANGED <<apvts, useSIMD, call, calls>>

\* delayLine.setFeedback(feedback);
CallSetFeedback ==
    /\ audio.pc = "setFeedback"
    /\ setFeedback(audio.feedback)
    /\ audio' = [audio EXCEPT !.pc = "setWetMix"]
    /\ UNCHANGED <<apvts, useSIMD, call, calls>>

\* delayLine.setWetMix(wetMix);
CallSetWetMix ==
    /\ audio.pc = "setWetMix"
    /\ setWetMix(audio.wet)
    /\ audio' = [audio EXCEPT !.pc = "setDryMix"]
    /\ UNCHANGED <<apvts, useSIMD, call, calls>>

\* delayLine.setDryMix(dryMix);
CallSetDryMix ==
    /\ audio.pc = "setDryMix"
    /\ setDryMix(audio.dry)
    /\ audio' = [audio EXCEPT !.pc = "dispatch"]
    /\ UNCHANGED <<apvts, useSIMD, call, calls>>

\* the pointers are taken from the buffer, the path is chosen by useSIMD and
\* the path's function is entered: the prepared guard, then its locals
Dispatch ==
    /\ audio.pc = "dispatch"
    /\ LET c == Context(audio.bufL, audio.bufR, 0, audio.n, TRUE, audio.g)
           s == Start(c, audio.bufL, audio.bufR)
       IN  IF ~prepared
           THEN /\ audio' = AudioIdle(audio.blocks + 1)
                /\ call' = Returned(c, s)
           ELSE /\ audio' = [audio EXCEPT
                                !.pc = IF useSIMD THEN "processBlockSIMD"
                                                  ELSE "processBlockScalar",
                                !.i = 0, !.c = c, !.s0 = s, !.s = s]
                /\ UNCHANGED call
    /\ UNCHANGED <<apvts, useSIMD, calls>>
    /\ UNCHANGED engine

\* one iteration of the loop of processBlockScalar
ScalarStep ==
    /\ audio.pc = "processBlockScalar"
    /\ audio.i < audio.c.n
    /\ LET t == ScalarIteration(audio.s, BlockLocals, audio.i)
       IN  /\ audio' = [audio EXCEPT !.s = t, !.i = @ + 1]
           /\ delayLineLeft' = t.bufL
           /\ delayLineRight' = t.bufR
    /\ UNCHANGED <<maxDelaySamples, delaySamples, delayIndex, feedback, wetMix,
                   dryMix, sRate, prepared>>
    /\ UNCHANGED <<apvts, useSIMD, call, calls>>

\* delayIndex = idx; and the return of processBlock
ScalarReturn ==
    /\ audio.pc = "processBlockScalar"
    /\ audio.i >= audio.c.n
    /\ delayLineLeft' = audio.s.bufL
    /\ delayLineRight' = audio.s.bufR
    /\ delayIndex' = audio.s.idx
    /\ UNCHANGED <<maxDelaySamples, delaySamples, feedback, wetMix, dryMix,
                   sRate, prepared>>
    /\ call' = Returned(audio.c, audio.s)
    /\ audio' = AudioIdle(audio.blocks + 1)
    /\ UNCHANGED <<apvts, useSIMD, calls>>

\* one iteration of the outer loop of processBlockSIMD
SIMDStep ==
    /\ audio.pc = "processBlockSIMD"
    /\ audio.s.rem > 0
    /\ LET t == SIMDSegment(audio.s, BlockLocals)
       IN  /\ audio' = [audio EXCEPT !.s = t]
           /\ delayLineLeft' = t.bufL
           /\ delayLineRight' = t.bufR
    /\ UNCHANGED <<maxDelaySamples, delaySamples, delayIndex, feedback, wetMix,
                   dryMix, sRate, prepared>>
    /\ UNCHANGED <<apvts, useSIMD, call, calls>>

\* delayIndex = idx; and the return of processBlock
SIMDReturn ==
    /\ audio.pc = "processBlockSIMD"
    /\ audio.s.rem <= 0
    /\ delayLineLeft' = audio.s.bufL
    /\ delayLineRight' = audio.s.bufR
    /\ delayIndex' = audio.s.idx
    /\ UNCHANGED <<maxDelaySamples, delaySamples, feedback, wetMix, dryMix,
                   sRate, prepared>>
    /\ call' = Returned(audio.c, audio.s)
    /\ audio' = AudioIdle(audio.blocks + 1)
    /\ UNCHANGED <<apvts, useSIMD, calls>>

\* the host prepares only while no block is running
PrepareBetweenBlocks ==
    /\ audio.pc = "idle"
    /\ PrepareToPlay

\* the steps of the audio thread inside processBlock
AudioStep ==
    \/ LoadBypass
    \/ LoadDelay
    \/ LoadFeedback
    \/ LoadWet
    \/ LoadDry
    \/ LoadSimd
    \/ CallSetDelaySeconds
    \/ CallSetFeedback
    \/ CallSetWetMix
    \/ CallSetDryMix
    \/ Dispatch
    \/ ScalarStep
    \/ ScalarReturn
    \/ SIMDStep
    \/ SIMDReturn

ThreadsNext ==
    \/ PrepareBetweenBlocks
    \/ ControlWrite
    \/ EnterBlock
    \/ AudioStep

SpecThreads == Init /\ [][ThreadsNext]_vars

\* the positions of the audio thread inside one of the two paths
PathStates == {"processBlockScalar", "processBlockSIMD"}

\* the block the audio thread is finishing, run in one piece from the state
\* the path found on entry, with the locals taken on entry
WholeBlock ==
    RunAt(audio.pc, audio.s0.bufL, audio.s0.bufR, audio.s0.idx, audio.c,
          audio.s0.outL, audio.s0.outR)

\* C12: the control thread may write any parameter between any two steps of
\* processBlock.  Each parameter is loaded once, at the start of the block;
\* a write changes nothing the audio thread holds; inside a path the locals
\* len, fb, wet, dry are the clamped values loaded at the start and never
\* change, the path never changes, and the outputs, buffers and cursor the
\* block leaves are those of the whole block computed with these locals; a
\* value written after its load is loaded by the next block.
C12_PerBlockSnapshot ==
    [][/\ call'.op = "setParameter" /\ call' # call
            => /\ engine' = engine
               /\ useSIMD' = useSIMD
               /\ audio' = audio
       /\ audio.pc = "delay" /\ audio'.pc # audio.pc
            => audio'.delay = apvts.delay
       /\ audio.pc = "feedback" /\ audio'.pc # audio.pc
            => audio'.feedback = apvts.feedback
       /\ audio.pc = "wet" /\ audio'.pc # audio.pc
            => audio'.wet = apvts.wet
       /\ audio.pc = "dry" /\ audio'.pc # audio.pc
            => audio'.dry = apvts.dry
       /\ audio.pc = "simd" /\ audio'.pc # audio.pc
            => useSIMD' = apvts.simd
       /\ audio.pc \in PathStates
            => /\ audio.c.len
                    = DelaySamplesFor(audio.delay, sRate, maxDelaySamples)
               /\ audio.c.fb = jlimit(0, MaxFeedback, audio.feedback)
               /\ audio.c.wet = jlimit(0, GainScale, audio.wet)
               /\ audio.c.dry = jlimit(0, GainScale, audio.dry)
               /\ (audio.pc = "processBlockSIMD") = useSIMD
               /\ audio'.pc \in {audio.pc, "idle"}
               /\ audio'.pc = audio.pc
                    => /\ audio'.c = audio.c
                       /\ audio'.s0 = audio.s0
                       /\ useSIMD' = useSIMD
               /\ audio'.pc = "idle"
                    => LET r == WholeBlock
                       IN  /\ call'.io.outL = r.outL
                           /\ call'.io.outR = r.outR
                           /\ call'.io.tr = r.tr
                           /\ delayLineLeft' = r.bufL
                           /\ delayLineRight' = r.bufR
                           /\ delayIndex' = r.idx]_vars

\* a block of two samples has returned, computed by the scalar path with
\* the feedback and dry gains loaded at its start, while the control thread
\* has since written another feedback, another dry gain and the other path
C12_Witness ==
    /\ call.op = "processBlock"
    /\ audio.pc = "idle"
    /\ prepared
    /\ ~call.arg.bypass
    /\ ~call.arg.simd
    /\ apvts.simd
    /\ call.io.n = 2
    /\ Len(call.io.tr) = 2
    /\ call.io.fb # jlimit(0, MaxFeedback, apvts.feedback)
    /\ call.io.dry # jlimit(0, GainScale, apvts.dry)
    /\ call.io.dry = dryMix
    /\ call.io.fb = feedback

\* ------------------------------------------------- claims on reset and prepare
\* C13: reset() leaves both delay buffers at their length with every element
\* 0 and the cursor at 0, and leaves delaySamples, feedback, wetMix, dryMix,
\* the sample rate, maxDelaySamples and the prepared flag as they were.
C13_ResetFrame ==
    [][call'.op = "reset"
         => /\ Len(delayLineLeft') = Len(delayLineLeft)
            /\ Len(delayLineRight') = Len(delayLineRight)
            /\ \A i \in 1..Len(delayLineLeft') : delayLineLeft'[i] = 0
            /\ \A i \in 1..Len(delayLineRight') : delayLineRight'[i] = 0
            /\ delayIndex' = 0
            /\ UNCHANGED <<delaySamples, feedback, wetMix, dryMix, sRate,
                           maxDelaySamples, prepared>>]_vars

\* reset() was called on a prepared engine that held non-zero samples and a
\* cursor away from 0
C13_Witness ==
    /\ call.op = "reset"
    /\ prepared
    /\ call.arg.stale
    /\ call.arg.cursor > 0
    /\ delayIndex = 0
    /\ delayLineLeft = Zeros(maxDelaySamples)
    /\ delayLineRight = Zeros(maxDelaySamples)

\* a block of n zero samples
Silence(n) == [i \in 1..n |-> 0]

\* a silent block of n samples run by path op from the buffers and cursor
\* given, with the engine's parameters as the step leaves them
SilentRun(op, bufL, bufR, idx, n, g) ==
    RunAt(op, bufL, bufR, idx,
          ContextOf(delaySamples', feedback', wetMix', dryMix',
                    Silence(n), Silence(n), 0, n, FALSE, g),
          Fresh(n), Fresh(n))

\* the run wrote n zero outputs on each channel and left the buffers all zero
StaysSilent(r, n) ==
    /\ r.outL = Silence(n)
    /\ r.outR = Silence(n)
    /\ r.bufL = Zeros(Len(r.bufL))
    /\ r.bufR = Zeros(Len(r.bufR))

\* C14: after reset() on a prepared engine, whatever calls came before, a
\* silent block of any size by either path gives all-zero outputs and
\* leaves the buffers all zero, and so does a second silent block after it.
C14_ResetClearsHistory ==
    [][(call'.op = "reset" /\ prepared)
         => \A op \in ProcessOps, n \in 0..MaxBlock, g \in Garbage :
               LET r == SilentRun(op, delayLineLeft', delayLineRight',
                                  delayIndex', n, g)
               IN  /\ StaysSilent(r, n)
                   /\ \A op2 \in ProcessOps, m \in 0..MaxBlock :
                         StaysSilent(SilentRun(op2, r.bufL, r.bufR, r.idx,
                                               m, g), m)]_vars

\* C15: prepare(sampleRate, maxDelaySeconds), in whatever state it is
\* called, leaves both buffers with floor(sampleRate * maxDelaySeconds)
\* elements, all 0, the cursor at 0 and prepared = true; and nothing of the
\* earlier session is heard afterwards: a silent block of any size by
\* either path gives all-zero outputs.
C15_Prepare ==
    [][call'.op = "prepare"
         => /\ Len(delayLineLeft') = call'.arg[1] * call'.arg[2]
            /\ Len(delayLineRight') = call'.arg[1] * call'.arg[2]
            /\ maxDelaySamples' = call'.arg[1] * call'.arg[2]
            /\ delayLineLeft' = Zeros(Len(delayLineLeft'))
            /\ delayLineRight' = Zeros(Len(delayLineRight'))
            /\ delayIndex' = 0
            /\ prepared'
            /\ \A op \in ProcessOps, n \in 0..MaxBlock, g \in Garbage :
                  StaysSilent(SilentRun(op, delayLineLeft', delayLineRight',
                                        delayIndex', n, g), n)]_vars

\* ------------------------------------------------------------ claim on bypass
\* C16: a processBlock call made while the bypass parameter is set leaves
\* the audio buffer, both delay buffers, the cursor, delaySamples, feedback,
\* wetMix and dryMix (the whole engine) as they were.
C16_Bypass ==
    [][(call'.op = "processBlock" /\ apvts.bypass)
         => /\ engine' = engine
            /\ call'.io.outL = call'.io.inL
            /\ call'.io.outR = call'.io.inR
            /\ call'.io.wr = {}
            /\ call'.io.acc = {}]_vars

\* a bypassed block of non-silent audio on an engine whose delay line holds
\* samples of an earlier block
C16_Witness ==
    /\ call.op = "processBlock"
    /\ call.arg.bypass
    /\ prepared
    /\ call.io.n > 1
    /\ call.io.outL = LeftBlock(call.io.n, Unit, Unit)
    /\ delayLineLeft # Zeros(Len(delayLineLeft))

\* ------------------------------------------------------ mix and delay length
\* the engine as reset() leaves it: prepared, cursor 0, buffers all zero
AsResetLeaves ==
    /\ prepared
    /\ delayIndex = 0
    /\ delayLineLeft = Zeros(Len(delayLineLeft))
    /\ delayLineRight = Zeros(Len(delayLineRight))

\* in[p] * dry + clamp(in[p - D], -1, 1) * wet, the second term from p = D on
MixOf(in, p, D, dry, wet) ==
    Mul(in[p + 1], dry) + (IF p >= D THEN Mul(Clip(in[p - D + 1]), wet) ELSE 0)

\* C17: with feedback 0 and delaySamples = D, a block given to the engine
\* as reset() leaves it, with separate input and output arrays, has
\* out[p] = in[p] * dry for p < D and
\* out[p] = in[p] * dry + clamp(in[p - D], -1, 1) * wet for p >= D, on both
\* channels and by either path.
C17_MixLinearity ==
    [][(AsResetLeaves /\ feedback = 0 /\ call'.op \in ProcessOps)
         => LET io == call'.io
            IN  /\ Len(io.tr) = io.n
                /\ \A k \in 1..Len(io.tr) :
                      LET t == io.tr[k]
                      IN  /\ t.p = k - 1
                          /\ t.oL = MixOf(io.inL, t.p, io.len0, io.dry, io.wet)
                          /\ t.oR = MixOf(io.inR, t.p, io.len0, io.dry, io.wet)
                          /\ io.outL[k] = t.oL
                          /\ io.outR[k] = t.oR]_vars

\* ------------------------------------------------------------ cursor advance
\* C18: on a prepared engine a processing call of n samples, by either
\* path, that starts with the cursor idx below delaySamples = D visits the
\* cursor positions (idx + p) mod D for p = 0 .. n-1 and ends with the
\* cursor at (idx + n) mod D: the cursor wraps at D, not at the capacity;
\* and after any call with n >= 1 the cursor is below D.
C18_CursorAdvance ==
    [][(prepared /\ call'.op \in ProcessOps)
         => /\ delayIndex < delaySamples
                 => /\ delayIndex' = (delayIndex + call'.io.n) % delaySamples
                    /\ Len(call'.io.tr) = call'.io.n
                    /\ \A k \in 1..Len(call'.io.tr) :
                          call'.io.tr[k].at
                              = (delayIndex + k - 1) % delaySamples
            /\ call'.io.n >= 1 => delayIndex' < delaySamples]_vars

\* a call that started with the cursor inside a delay length shorter than
\* the capacity, ran past the wrap point and ended away from 0
C18_Witness ==
    /\ prepared
    /\ call.op \in ProcessOps
    /\ call.io.len0 = delaySamples
    /\ delaySamples < maxDelaySamples
    /\ 0 < call.io.idx0
    /\ call.io.idx0 < delaySamples
    /\ call.io.idx0 + call.io.n > delaySamples
    /\ delayIndex = (call.io.idx0 + call.io.n) % delaySamples
    /\ delayIndex > 0

\* ------------------------------------------------- frame of setDelaySeconds
\* C19: setDelaySeconds changes delaySamples only: both buffers keep their
\* length and every element (also those at indices at or beyond the new
\* delaySamples), the cursor stays where it is (also at or beyond the new
\* delaySamples), and so do the gains, the sample rate, the capacity and
\* the prepared flag; and a processing call reads in each cell it visits
\* what the buffers held there, so samples left beyond a shortened delay
\* are read again once the delay is longer.
C19_SetDelayFrame ==
    [][/\ call'.op = "setDelaySeconds"
            => UNCHANGED <<delayLineLeft, delayLineRight, maxDelaySamples,
                           delayIndex, feedback, wetMix, dryMix, sRate,
                           prepared>>
       /\ (prepared /\ call'.op \in ProcessOps)
            => \A k \in 1..Len(call'.io.tr) :
                  LET t == call'.io.tr[k]
                  IN  (/\ InRange(delayLineLeft, t.at)
                       /\ \A j \in 1..(k - 1) : call'.io.tr[j].at # t.at)
                        => /\ t.dL = delayLineLeft[t.at + 1]
                           /\ t.dR = delayLineRight[t.at + 1]]_vars

\* setDelaySeconds shortened the delay on an engine whose cursor is at or
\* beyond the new length and whose buffers hold non-zero samples beyond it
C19_Witness ==
    /\ call.op = "setDelaySeconds"
    /\ prepared
    /\ delaySamples < maxDelaySamples
    /\ delayIndex >= delaySamples
    /\ \E i \in (delaySamples + 1)..Len(delayLineLeft) :
          delayLineLeft[i] # 0 /\ delayLineRight[i] # 0

\* ------------------------------------------------------- edge-aware chunking
RECURSIVE SumOf(_)
SumOf(seq) == IF seq = <<>> THEN 0 ELSE Head(seq) + SumOf(Tail(seq))

\* the places of a call's trace where the cursor did not step to the next cell
Wraps(tr) == {k \in 1..(Len(tr) - 1) : tr[k + 1].at # tr[k].at + 1}

\* C20: in a processBlockSIMD call on a prepared engine every vector
\* load/store covers the cells offset .. offset+W-1 with offset + W <=
\* delaySamples; every segment has a size from 0 to delaySamples, the
\* sizes add up to numSamples and that many samples are
\* processed; the cursor leaves the run of consecutive cells only at the
\* end of a segment.  Stated for the calls that start with delaySamples and
\* the cursor inside the buffers.
C20_EdgeAwareChunking ==
    (prepared /\ call.op = "processBlockSIMD" /\ StartedInside)
        => /\ \A offset \in call.io.vecs :
                 0 <= offset /\ offset + simdWidth <= call.io.len0
           /\ \A k \in 1..Len(call.io.segs) :
                 0 <= call.io.segs[k] /\ call.io.segs[k] <= call.io.len0
           /\ SumOf(call.io.segs) = call.io.n
           /\ Len(call.io.tr) = call.io.n
           /\ Cardinality(Wraps(call.io.tr)) < Len(call.io.segs)
                \/ call.io.n = 0

\* ---------------------------------------------------------------- termination
\* ceil(n / d) for n >= 0, d >= 1
CeilDiv(n, d) == (n + d - 1) \div d

\* samplesRemaining after each of the first k outer iterations of a call
Remaining(io, k) == io.n - SumOf(SubSeq(io.segs, 1, k))

\* C21: on a prepared engine every processing call ends: the scalar loop
\* after numSamples iterations, the SIMD loop with samplesRemaining at 0;
\* in processBlockSIMD samplesRemaining never increases from one outer
\* iteration to the next, and the number of outer iterations is at most
\* ceil(numSamples / delaySamples) + 1.  Stated for the calls that start
\* with delaySamples and the cursor inside the buffers.
C21_Termination ==
    (prepared /\ call.op \in ProcessOps /\ StartedInside)
        => /\ call.op = "processBlockScalar" => Len(call.io.tr) = call.io.n
           /\ call.op = "processBlockSIMD"
                => /\ Remaining(call.io, Len(call.io.segs)) = 0
                   /\ \A k \in 1..Len(call.io.segs) :
                         Remaining(call.io, k) <= Remaining(call.io, k - 1)
                   /\ Len(call.io.segs)
                         <= CeilDiv(call.io.n, call.io.len0) + 1

=============================================================================
